---- MODULE Spec2Model ----
(***************************************************************************)
(* Finite permutations as immutable mappings: a model of the two variants  *)
(* of the module kept in this repository, src/perm.py (classes             *)
(* Permutation / Cycle / Identity) and src/permutation.py (one class       *)
(* Permutation with a private _cycle constructor argument).                *)
(*                                                                         *)
(* Domain elements are small integers, so the domain is totally ordered    *)
(* and min() never raises TypeError.  Python values are records            *)
(*   [cycle, map, orbits, order, tag]                                      *)
(* where map is the stored dict (_map), cycle the stored cycle tuple       *)
(* (<<>> when the object has none), orbits the tuple of the orbits' cycle  *)
(* tuples and order the stored / computed order().  A raised exception is  *)
(* a record of the same shape whose tag is the exception's class.          *)
(* set.pop() returns an arbitrary element: the step-level machine takes    *)
(* any element, the operators take the element a policy selects.           *)
(* perm.py's `import _collections` and `import _random` are read as the    *)
(* standard collections and random modules, as in permutation.py.          *)
(***************************************************************************)
EXTENDS Integers, Sequences, FiniteSets, TLC

\* ---------------------------------------------------------------- bounds
\* raw mappings handed to the decomposition machine have keys and values in 0..NRaw-1
NRaw == 4
\* the operands of ** act on 0..N-1
N == 5
\* the operands of * act on 0..NMul-1, the terms of a product on 0..NTerm-1
NMul == 4
NTerm == 3
\* explicit cycle construction takes sequences of at most MaxLen elements
MaxLen == 6
\* exponents range over -MaxExp..MaxExp
MaxExp == 7
\* product construction takes at most MaxTerms terms
MaxTerms == 3

RawDom == 0..(NRaw - 1)
Dom == 0..(N - 1)
MulDom == 0..(NMul - 1)
TermDom == 0..(NTerm - 1)

VARIABLES variant, mapping, unseen, orbits, orbit, first, key, pc, result, call,
          pow_todo, pow_cycle, pow_unseen, pow_first, pow_index, pow_new_cycle,
          pow_cycles, pow_value

\* the locals of a running __pow__
frame == <<pow_todo, pow_cycle, pow_unseen, pow_first, pow_index, pow_new_cycle,
           pow_cycles, pow_value>>

vars == <<variant, mapping, unseen, orbits, orbit, first, key, pc, result, call, frame>>

Variants == {"perm", "permutation"}

\* ------------------------------------------------------- integer utilities
RECURSIVE gcd2(_, _)
\* one pass of `while x > 0: x, g = g % x, x` for one argument x
gcd2(x, g) == IF x > 0 THEN gcd2(g % x, x) ELSE g

RECURSIVE gcdFrom(_, _, _)
gcdFrom(args, i, g) ==
    IF i > Len(args) THEN g ELSE gcdFrom(args, i + 1, gcd2(args[i], g))

gcd(args) == gcdFrom(args, 1, 0)

\* the running product without the division by the gcd
lcmStep_product(x, m) == m * x

\* `m *= (x // _gcd(x, m))`
lcmStep(x, m) == m * (x \div gcd(<<x, m>>))

RECURSIVE lcmFrom(_, _, _)
lcmFrom(args, i, m) ==
    IF i > Len(args) THEN m ELSE lcmFrom(args, i + 1, lcmStep(args[i], m))

lcm(args) == lcmFrom(args, 1, 1)

\* ------------------------------------------------------------ the values
EmptyMap == [k \in {} |-> 0]

Value(t, m, c, os, ord) ==
    [cycle |-> c, map |-> m, orbits |-> os, order |-> ord, tag |-> t]

Raise(name) == Value(name, EmptyMap, <<>>, <<>>, 0)

IsError(v) == v.tag \in {"ValueError:not injective", "ValueError:inconsistent",
                         "ValueError:not cyclic", "TypeError", "KeyError"}

\* perm.py: the IDENTITY singleton, an Identity built from no arguments
IDENTITY == Value("Identity", EmptyMap, <<>>, <<>>, 1)

\* x[key] of a Permutation: the stored value, or key itself on KeyError
Apply(m, k) == IF k \in DOMAIN m THEN m[k] ELSE k

\* hash(frozenset(self._map)): a function of the key set alone
HashOf(v) == DOMAIN v.map

Range(s) == {s[i] : i \in DOMAIN s}

Min(S) == CHOOSE x \in S : \A y \in S : x <= y

Max(S) == CHOOSE x \in S : \A y \in S : y <= x

\* args.index(x, start), 0-based in the source, 1-based here; 0 when absent
IndexFrom(s, x, start) ==
    IF \E i \in start..Len(s) : s[i] = x
    THEN Min({i \in start..Len(s) : s[i] = x})
    ELSE 0

\* dict(zip(args, args[1:] + args[:1])): a later pair overwrites an earlier one
ZipNext(s) ==
    [k \in Range(s) |->
        LET i == Max({j \in DOMAIN s : s[j] = k}) IN s[(i % Len(s)) + 1]]

\* args[least_index:] + args[:least_index] with least_index = args.index(min(args))
Rotate(s) ==
    LET li == IndexFrom(s, Min(Range(s)), 1)
    IN  [i \in 1..Len(s) |-> s[((i + li - 2) % Len(s)) + 1]]

Reverse(s) == [i \in 1..Len(s) |-> s[Len(s) + 1 - i]]

\* ------------------------------------------- explicit cycle construction
\* args.index(args[0], 1), or len(args) when the first element never recurs
\* (1-based: the position of the first element of `repeat`)
RepeatIndex(args) ==
    LET i == IndexFrom(args, args[1], 2) IN IF i = 0 THEN Len(args) + 1 ELSE i

\* set(zip(repeat, repeat[1:] + args[:1])), args being the cut prefix
RepeatPairs(prefix, repeat) ==
    LET shifted == SubSeq(repeat, 2, Len(repeat)) \o SubSeq(prefix, 1, 1)
    IN  {<<repeat[i], shifted[i]>> : i \in 1..Len(repeat)}

\* mapping.items()
Items(m) == {<<k, m[k]>> : k \in DOMAIN m}

\* the checks of the sequence shared by Cycle.__new__ and Permutation.cycle:
\* "ok", or the ValueError raised
CycleCheck(args) ==
    LET ri == RepeatIndex(args)
        prefix == SubSeq(args, 1, ri - 1)
        repeat == SubSeq(args, ri, Len(args))
        m == ZipNext(prefix)
    IN  IF Cardinality(DOMAIN m) < Len(prefix) THEN "ValueError:inconsistent"
        ELSE IF RepeatPairs(prefix, repeat) \ Items(m) # {}
             THEN "ValueError:not cyclic"
             ELSE "ok"

CyclePrefix(args) == SubSeq(args, 1, RepeatIndex(args) - 1)

\* perm.py: the Cycle object holding cycle tuple c over the mapping m
\* (order() is len(self), orbits() is (self,))
CycleObject(m, c) == Value("Cycle", m, c, <<c>>, Cardinality(DOMAIN m))

\* perm.py Cycle.__new__
perm_Cycle(args) ==
    IF Len(args) <= 1 THEN IDENTITY
    ELSE LET chk == CycleCheck(args)
             prefix == CyclePrefix(args)
         IN  IF chk # "ok" THEN Raise(chk)
             ELSE CycleObject(ZipNext(prefix), Rotate(prefix))

\* permutation.py: Permutation() with no arguments, the empty decomposition
permutation_identity == Value("Permutation", EmptyMap, <<>>, <<>>, 1)

\* permutation.py Permutation.__new__, the branch `_cycle is not None and len(_cycle) > 1`
permutation_new_cycle(c) == Value("Permutation", ZipNext(c), c, <<c>>, Len(c))

\* permutation.py Permutation.cycle
permutation_cycle(args) ==
    IF Len(args) <= 1 THEN permutation_identity
    ELSE LET chk == CycleCheck(args)
             rot == Rotate(CyclePrefix(args))
         IN  IF chk # "ok" THEN Raise(chk)
             ELSE IF Len(rot) > 1 THEN permutation_new_cycle(rot)
             ELSE permutation_identity

\* ------------------------------------------------- orbit decomposition
\* permutation.py: the stored mapping drops every pair with key == value
DropFixed(m) == [k \in {x \in DOMAIN m : m[x] # x} |-> m[k]]

\* the mapping stored by super().__new__ before the decomposition
Stored(v, m) == IF v = "permutation" THEN DropFixed(m) ELSE m

\* what the decomposition appends for a collected orbit:
\* perm.py appends Cycle(orbit), whose tuple is rotated; permutation.py the list
Collected(v, o) == IF v = "perm" THEN perm_Cycle(o).cycle ELSE o

\* `if len(orbit) > 1: orbits.append(...)`
AppendOrbit(v, os, o) == IF Len(o) > 1 THEN Append(os, Collected(v, o)) ELSE os

\* the KeyError of unseen.remove(key) ends the walk instead of raising
WalkStep_swallow(nk, f, u) ==
    IF nk = f \/ nk \notin u THEN "break" ELSE "remove"

\* the inner loop after `key = self[key]`: "break" when the walk is back at
\* first, "remove" when unseen.remove(key) succeeds, "raise" on its KeyError
WalkStep(nk, f, u) ==
    IF nk = f THEN "break" ELSE IF nk \in u THEN "remove" ELSE "raise"

RECURSIVE SortByMin(_)
\* orbits.sort(key=min): stable, so the first orbit of least minimum goes first
SortByMin(os) ==
    IF Len(os) <= 1 THEN os
    ELSE LET least == Min({Min(Range(os[i])) : i \in DOMAIN os})
             at == Min({i \in DOMAIN os : Min(Range(os[i])) = least})
             rest == [i \in 1..(Len(os) - 1) |-> IF i < at THEN os[i] ELSE os[i + 1]]
         IN  <<os[at]>> \o SortByMin(rest)

Lengths(os) == [i \in DOMAIN os |-> Len(os[i])]

\* perm.py Permutation.__new__ after the loop: orbits.sort() compares Cycle
\* objects, which define no ordering, so with two or more orbits it raises the
\* TypeError that is swallowed and the list keeps its order
perm_finish(m, os) ==
    IF Len(os) = 0 THEN IDENTITY
    ELSE IF Len(os) = 1 THEN CycleObject(ZipNext(os[1]), os[1])
    ELSE Value("Permutation", m, <<>>, os, lcm(Lengths(os)))

\* permutation.py Permutation.__new__ after orbits.sort(key=min)
permutation_collapse(m, sorted) ==
    IF Len(sorted) = 1 THEN permutation_new_cycle(sorted[1])
    ELSE Value("Permutation", m, <<>>, sorted, lcm(Lengths(sorted)))

\* permutation.py Permutation.__new__ after the loop
permutation_finish(m, os) == permutation_collapse(m, SortByMin(os))

Finish(v, m, os) == IF v = "perm" THEN perm_finish(m, os) ELSE permutation_finish(m, os)

\* the list of orbits after the sort (perm.py: left as it was, see perm_finish)
Sort(v, os) == IF v = "perm" THEN os ELSE SortByMin(os)

\* what the constructor returns once the orbits are sorted
Collapse(v, m, sorted) ==
    IF v = "perm" THEN perm_finish(m, sorted) ELSE permutation_collapse(m, sorted)

\* ---- the loops as operators; unseen.pop() takes the element the policy names
Policies == {"min", "max"}

Pop(S, pol) == IF pol = "min" THEN Min(S) ELSE Max(S)

RECURSIVE WalkOrbit(_, _, _, _, _)
\* the inner `while True` from the state (first, key, orbit, unseen)
WalkOrbit(m, f, k, o, u) ==
    LET o2 == Append(o, k)
        nk == Apply(m, k)
        step == WalkStep(nk, f, u)
    IN  IF step = "break" THEN [ok |-> TRUE, orbit |-> o2, unseen |-> u]
        ELSE IF step = "remove" THEN WalkOrbit(m, f, nk, o2, u \ {nk})
        ELSE [ok |-> FALSE, orbit |-> o2, unseen |-> u]

RECURSIVE DecomposeFrom(_, _, _, _, _)
\* the outer `while unseen`
DecomposeFrom(v, m, u, os, pol) ==
    IF u = {} THEN [ok |-> TRUE, orbits |-> os]
    ELSE LET f == Pop(u, pol)
             w == WalkOrbit(m, f, f, <<>>, u \ {f})
         IN  IF w.ok THEN DecomposeFrom(v, m, w.unseen, AppendOrbit(v, os, w.orbit), pol)
             ELSE [ok |-> FALSE, orbits |-> os]

New(v, arg, pol) ==
    LET m == Stored(v, arg)
        d == DecomposeFrom(v, m, DOMAIN m, <<>>, pol)
    IN  IF d.ok THEN Finish(v, m, d.orbits) ELSE Raise("ValueError:not injective")

\* perm.py Permutation.__new__ on a mapping
perm_new(arg, pol) == New("perm", arg, pol)

\* permutation.py Permutation.__new__ on a mapping
permutation_new(arg, pol) == New("permutation", arg, pol)

\* ------------------------------------------------------------ equality
\* perm.py inherits Mapping.__eq__, dict(self.items()) == dict(other.items()):
\* items() iterates the object, and Cycle.__iter__ returns the tuple itself,
\* which is no iterator, so iterating a Cycle raises TypeError
perm_eq(a, b) ==
    IF a.tag = "Cycle" \/ b.tag = "Cycle" THEN "TypeError"
    ELSE IF a.map = b.map THEN "True" ELSE "False"

\* permutation.py _FrozenDict.__eq__: self._map == other._map
permutation_eq(a, b) == IF a.map = b.map THEN "True" ELSE "False"

Eq(v, a, b) == IF v = "perm" THEN perm_eq(a, b) ELSE permutation_eq(a, b)

\* ------------------------------------------------------------ composition
\* a plain dict as the right operand of *
Dict(m) == Value("dict", m, <<>>, <<>>, 0)

\* perm.py Identity.__mul__ and Permutation.__mul__:
\* Permutation((k, self[other[k]]) for k in other)
perm_mul(self, other, pol) ==
    IF self.tag = "Identity" THEN other
    ELSE IF other.tag = "Cycle" THEN Raise("TypeError")
    ELSE perm_new([k \in DOMAIN other.map |-> Apply(self.map, Apply(other.map, k))], pol)

\* permutation.py Permutation.__mul__: mapping = dict(self), then every key of
\* other is set to self[other[key]]
permutation_mul_dict(self, other) ==
    [k \in (DOMAIN self.map) \cup (DOMAIN other.map) |->
        IF k \in DOMAIN other.map
        THEN Apply(self.map, Apply(other.map, k))
        ELSE self.map[k]]

\* permutation.py Permutation.__mul__: `return self.__class__(mapping)`
permutation_mul(self, other, pol) ==
    permutation_new(permutation_mul_dict(self, other), pol)

Mul(v, p, q, pol) == IF v = "perm" THEN perm_mul(p, q, pol) ELSE permutation_mul(p, q, pol)

\* --------------------------------------------------------- exponentiation
\* the index walk without its `if index == first: break`
PowStep_nobreak(ni, f, u) ==
    IF ni \in u THEN "remove" ELSE "raise"

\* the index walk after `index = (index + exp) % order`: "break" when it is
\* back at first, "remove" when unseen.remove(index) succeeds, "raise" on its
\* KeyError
PowStep(ni, f, u) ==
    IF ni = f THEN "break" ELSE IF ni \in u THEN "remove" ELSE "raise"

RECURSIVE PowWalk(_, _, _, _, _, _, _)
\* the inner `while True` of the index walk; indices are 0-based as in the source
PowWalk(c, exp, order, f, index, nc, u) ==
    LET nc2 == Append(nc, c[index + 1])
        ni == (index + exp) % order
        step == PowStep(ni, f, u)
    IN  IF step = "break" THEN [cycle |-> nc2, ok |-> TRUE, unseen |-> u]
        ELSE IF step = "remove" THEN PowWalk(c, exp, order, f, ni, nc2, u \ {ni})
        ELSE [cycle |-> nc2, ok |-> FALSE, unseen |-> u]

RECURSIVE PowSplit(_, _, _, _, _, _)
\* `while unseen` of the index walk: the list of the new cycles longer than 1,
\* or ok = FALSE when unseen.remove(index) raised KeyError
PowSplit(c, exp, order, u, cs, pol) ==
    IF u = {} THEN [cycles |-> cs, ok |-> TRUE]
    ELSE LET f == Pop(u, pol)
             w == PowWalk(c, exp, order, f, f, <<>>, u \ {f})
         IN  IF ~w.ok THEN [cycles |-> cs, ok |-> FALSE]
             ELSE PowSplit(c, exp, order, w.unseen,
                           IF Len(w.cycle) > 1 THEN Append(cs, w.cycle) ELSE cs, pol)

\* perm.py Permutation.from_product called by Cycle.__pow__ with a list of
\* lists: one list collapses through Cycle((list,)), two or more reach
\* `cycle * mapping` with a list and a dict, which is a TypeError
perm_from_product_lists(cycles) ==
    IF Len(cycles) = 0 THEN IDENTITY
    ELSE IF Len(cycles) = 1 THEN perm_Cycle(cycles)
    ELSE Raise("TypeError")

\* the closed form of a coprime power: index = (index + exp) % order, order times
ClosedForm(c, exp, order) == [i \in 1..order |-> c[((i * exp) % order) + 1]]

\* perm.py Cycle.__pow__
perm_Cycle_pow(self, exp, pol) ==
    LET order == self.order
        e == exp % order
    IN  IF e = 0 THEN IDENTITY
        ELSE IF e = 1 THEN self
        ELSE IF e = order - 1 THEN perm_Cycle(Reverse(self.cycle))
        ELSE IF gcd(<<e, order>>) = 1 THEN perm_Cycle(ClosedForm(self.cycle, e, order))
        ELSE LET sp == PowSplit(self.cycle, e, order, 0..(order - 1), <<>>, pol)
             IN  IF sp.ok THEN perm_from_product_lists(sp.cycles) ELSE Raise("KeyError")

\* dict.update(other): other.keys() is iterated, a TypeError for a Cycle
Update(m, r) == [k \in (DOMAIN m) \cup (DOMAIN r.map) |->
                    IF k \in DOMAIN r.map THEN r.map[k] ELSE m[k]]

RECURSIVE perm_pow_orbits(_, _, _, _, _)
\* perm.py Permutation.__pow__: mapping.update(orbit ** exp) for every orbit
perm_pow_orbits(os, i, exp, m, pol) ==
    IF i > Len(os) THEN perm_new(m, pol)
    ELSE LET r == perm_Cycle_pow(CycleObject(ZipNext(os[i]), os[i]), exp, pol)
         IN  IF IsError(r) THEN r
             ELSE IF r.tag = "Cycle" THEN Raise("TypeError")
             ELSE perm_pow_orbits(os, i + 1, exp, Update(m, r), pol)

\* perm.py __pow__ of Identity, Cycle and Permutation
perm_pow(self, exp, pol) ==
    IF self.tag = "Identity" THEN self
    ELSE IF self.tag = "Cycle" THEN perm_Cycle_pow(self, exp, pol)
    ELSE perm_pow_orbits(self.orbits, 1, exp, EmptyMap, pol)

RECURSIVE MulCycles(_, _, _, _)
\* permutation.py: value *= Permutation(_cycle=new_cycle) for the new cycles
MulCycles(value, cs, i, pol) ==
    IF i > Len(cs) \/ IsError(value) THEN value
    ELSE MulCycles(permutation_mul(value, permutation_new_cycle(cs[i]), pol), cs, i + 1, pol)

RECURSIVE permutation_pow_orbits(_, _, _, _, _)
permutation_pow_orbits(os, i, exp, value, pol) ==
    IF i > Len(os) \/ IsError(value) THEN value
    ELSE LET order == Len(os[i])
         IN  IF exp % order = 0 THEN permutation_pow_orbits(os, i + 1, exp, value, pol)
             ELSE LET sp == PowSplit(os[i], exp, order, 0..(order - 1), <<>>, pol)
                  IN  IF ~sp.ok THEN Raise("KeyError")
                      ELSE permutation_pow_orbits(os, i + 1, exp,
                                                  MulCycles(value, sp.cycles, 1, pol), pol)

\* permutation.py Permutation.__pow__
permutation_pow(self, exp, pol) ==
    permutation_pow_orbits(self.orbits, 1, exp, permutation_identity, pol)

Pow(v, p, e, pol) == IF v = "perm" THEN perm_pow(p, e, pol) ELSE permutation_pow(p, e, pol)

\* ------------------------------------------------------- product of terms
RECURSIVE perm_product_fold(_, _, _, _)
\* perm.py: for cycle in reversed(args): mapping.update(cycle * mapping)
perm_product_fold(terms, i, m, pol) ==
    IF i < 1 THEN perm_new(m, pol)
    ELSE LET r == perm_mul(terms[i], Dict(m), pol)
         IN  IF IsError(r) THEN r
             ELSE IF r.tag = "Cycle" THEN Raise("TypeError")
             ELSE perm_product_fold(terms, i - 1, Update(m, r), pol)

\* perm.py Permutation.from_product on a list of permutations
perm_from_product(terms, pol) ==
    IF Len(terms) = 0 THEN IDENTITY
    ELSE IF Len(terms) = 1 THEN perm_Cycle(terms)
    ELSE perm_product_fold(terms, Len(terms), EmptyMap, pol)

RECURSIVE permutation_product_fold(_, _, _, _)
permutation_product_fold(terms, i, value, pol) ==
    IF i > Len(terms) \/ IsError(value) THEN value
    ELSE permutation_product_fold(terms, i + 1, permutation_mul(value, terms[i], pol), pol)

\* permutation.py Permutation.product on a list of permutations
permutation_product(terms, pol) ==
    permutation_product_fold(terms, 1, permutation_identity, pol)

Product(v, terms, pol) ==
    IF v = "perm" THEN perm_from_product(terms, pol) ELSE permutation_product(terms, pol)

\* ------------------------------------------------------------------------
\* variant is the module in use, fixed for a run.
\* The decomposition of Permutation.__new__ as a machine: one step per pass of
\* the outer loop head and of the inner loop body.  call records the
\* operation and its arguments, result what it returned or raised.
NoCall == [args |-> <<>>, op |-> "none"]

NoValue == Value("none", EmptyMap, <<>>, <<>>, 0)

RawMappings == UNION {[K -> RawDom] : K \in SUBSET RawDom}

Init ==
    /\ variant \in Variants
    /\ mapping = EmptyMap
    /\ unseen = {}
    /\ orbits = <<>>
    /\ orbit = <<>>
    /\ first = 0
    /\ key = 0
    /\ pc = "idle"
    /\ result = NoValue
    /\ call = NoCall
    /\ pow_todo = <<>>
    /\ pow_cycle = <<>>
    /\ pow_unseen = {}
    /\ pow_first = 0
    /\ pow_index = 0
    /\ pow_new_cycle = <<>>
    /\ pow_cycles = <<>>
    /\ pow_value = NoValue

\* the constructor was called by `value *= ...` inside the index walk of
\* permutation.py's __pow__, which goes on with what it returns
Nested == call.op = "pow" /\ variant = "permutation"

\* Permutation(arg): store the mapping, unseen = set(self.keys()), orbits = []
Start ==
    /\ pc = "idle"
    /\ \E arg \in RawMappings :
        /\ call' = [args |-> <<arg>>, op |-> "new"]
        /\ mapping' = Stored(variant, arg)
        /\ unseen' = DOMAIN Stored(variant, arg)
    /\ UNCHANGED <<variant, frame>>
    /\ orbits' = <<>>
    /\ orbit' = <<>>
    /\ first' = 0
    /\ key' = 0
    /\ result' = NoValue
    /\ pc' = "outer"

\* `while unseen: first = key = unseen.pop(); orbit = []`
PopFirst ==
    /\ pc = "outer"
    /\ unseen # {}
    /\ \E k \in unseen :
        /\ first' = k
        /\ key' = k
        /\ unseen' = unseen \ {k}
    /\ orbit' = <<>>
    /\ pc' = "inner"
    /\ UNCHANGED <<variant, frame, mapping, orbits, result, call>>

\* the loop body when the walk is back at first: break, keep the orbit if long enough
WalkClose ==
    /\ pc = "inner"
    /\ WalkStep(Apply(mapping, key), first, unseen) = "break"
    /\ orbit' = Append(orbit, key)
    /\ key' = Apply(mapping, key)
    /\ orbits' = AppendOrbit(variant, orbits, Append(orbit, key))
    /\ pc' = "outer"
    /\ UNCHANGED <<variant, frame, mapping, unseen, first, result, call>>

\* the loop body when the successor is still unseen
WalkAdvance ==
    /\ pc = "inner"
    /\ WalkStep(Apply(mapping, key), first, unseen) = "remove"
    /\ orbit' = Append(orbit, key)
    /\ key' = Apply(mapping, key)
    /\ unseen' = unseen \ {Apply(mapping, key)}
    /\ UNCHANGED <<variant, frame, mapping, orbits, first, pc, result, call>>

\* the loop body when unseen.remove(key) raises KeyError
WalkRaise ==
    /\ pc = "inner"
    /\ WalkStep(Apply(mapping, key), first, unseen) = "raise"
    /\ orbit' = Append(orbit, key)
    /\ key' = Apply(mapping, key)
    /\ result' = Raise("ValueError:not injective")
    /\ pc' = "done"
    /\ UNCHANGED <<variant, frame, mapping, unseen, orbits, first, call>>

\* unseen is empty: sort, collapse to IDENTITY / a cycle, or keep the product
Return ==
    /\ pc = "outer"
    /\ unseen = {}
    /\ \E sorted \in {Sort(variant, orbits)} :
        IF Nested
        THEN /\ pow_value' = Collapse(variant, mapping, sorted)
             /\ pc' = "pow_outer"
             /\ UNCHANGED result
        ELSE /\ result' = Collapse(variant, mapping, sorted)
             /\ pc' = "done"
             /\ UNCHANGED pow_value
    /\ UNCHANGED <<variant, mapping, unseen, orbits, orbit, first, key, call>>
    /\ UNCHANGED <<pow_todo, pow_cycle, pow_unseen, pow_first, pow_index, pow_new_cycle, pow_cycles>>

\* the caller drops the value (or handles the exception) and goes on
Discard ==
    /\ pc = "done"
    /\ mapping' = EmptyMap
    /\ unseen' = {}
    /\ orbits' = <<>>
    /\ orbit' = <<>>
    /\ first' = 0
    /\ key' = 0
    /\ pc' = "idle"
    /\ result' = NoValue
    /\ call' = NoCall
    /\ pow_todo' = <<>>
    /\ pow_cycle' = <<>>
    /\ pow_unseen' = {}
    /\ pow_first' = 0
    /\ pow_index' = 0
    /\ pow_new_cycle' = <<>>
    /\ pow_cycles' = <<>>
    /\ pow_value' = NoValue
    /\ UNCHANGED variant

Next ==
    Start \/ PopFirst \/ WalkClose \/ WalkAdvance \/ WalkRaise \/ Return \/ Discard

Spec == Init /\ [][Next]_vars

\* ------------------------------------------------------------------------
\* The other operations, each one call: the values they take are the values
\* the constructors return.
\* a mapping that maps its key set onto itself (finite, so a bijection of it)
IsBijection(m) == {m[k] : k \in DOMAIN m} = DOMAIN m

InjectiveSeqs(D) ==
    {s \in UNION {[1..n -> D] : n \in 1..Cardinality(D)} :
        \A i, j \in DOMAIN s : s[i] = s[j] => i = j}

\* the mappings every construction accepts: bijections of a key set, fixed
\* points among the keys or not
Bijections(D) == {m \in UNION {[K -> K] : K \in SUBSET D} : IsBijection(m)}

CycleOf(v, s) == IF v = "perm" THEN perm_Cycle(s) ELSE permutation_cycle(s)

\* the values of a variant over D: decomposed mappings, cycles in every
\* rotation, and (a, a), a one-element cycle given twice
ValuesOn(v, D) ==
    {New(v, m, pol) : m \in Bijections(D), pol \in Policies}
        \cup {CycleOf(v, s) : s \in InjectiveSeqs(D)}
        \cup {CycleOf(v, <<a, a>>) : a \in D}
        \cup (IF v = "permutation"
              THEN {permutation_new_cycle(s) : s \in {t \in InjectiveSeqs(D) : Len(t) > 1}}
              ELSE {})

PowOperands(v) == ValuesOn(v, Dom)

MulOperands(v) == ValuesOn(v, MulDom)

TermLists(v) == UNION {[1..n -> ValuesOn(v, TermDom)] : n \in 0..MaxTerms}

CycleArgs == UNION {[1..n -> RawDom] : n \in 0..MaxLen}

Exponents == (-MaxExp)..MaxExp

Returns(c, r) ==
    /\ call' = c
    /\ result' = r
    /\ pc' = "done"
    /\ UNCHANGED <<variant, frame, mapping, unseen, orbits, orbit, first, key>>

\* Cycle(args) / Permutation.cycle(args)
CallCycle ==
    /\ pc = "idle"
    /\ \E s \in CycleArgs :
        Returns([args |-> <<s>>, op |-> "cycle"], CycleOf(variant, s))

\* p * q
CallMul ==
    /\ pc = "idle"
    /\ \E pol \in Policies :
        \E p \in MulOperands(variant), q \in MulOperands(variant) :
            Returns([args |-> <<p, q>>, op |-> "mul"], Mul(variant, p, q, pol))

\* p ** e
CallPow ==
    /\ pc = "idle"
    /\ \E pol \in Policies :
        \E p \in PowOperands(variant), e \in Exponents :
            Returns([args |-> <<p, e>>, op |-> "pow"], Pow(variant, p, e, pol))

\* Permutation.from_product(terms) / Permutation.product(terms)
CallProduct ==
    /\ pc = "idle"
    /\ \E pol \in Policies :
        \E ts \in TermLists(variant) :
            Returns([args |-> <<ts>>, op |-> "product"], Product(variant, ts, pol))

SpecCycle == Init /\ [][CallCycle \/ Discard]_vars

SpecMul == Init /\ [][CallMul \/ Discard]_vars

SpecPow == Init /\ [][CallPow \/ Discard]_vars

SpecProduct == Init /\ [][CallProduct \/ Discard]_vars

\* every construction path side by side
NextAll == Next \/ CallCycle \/ CallMul \/ CallPow \/ CallProduct

SpecAll == Init /\ [][NextAll]_vars

\* ------------------------------------------------------------------------
\* Properties of the decomposition machine.
Done == pc = "done" /\ call.op = "new"

Arg == call.args[1]

\* the function a value denotes, on x
At(v, x) == Apply(v.map, x)

IdentityOf(v) == IF v = "perm" THEN IDENTITY ELSE permutation_identity

Returned(op) == pc = "done" /\ call.op = op

Ok == ~IsError(result)

\* C3: constructing from a mapping raises the not-injective error exactly when
\* the mapping without its fixed points is not a bijection of its key set,
\* whichever key each unseen.pop() returned
C3_RejectionExact ==
    Done => ((result.tag = "ValueError:not injective") <=> ~IsBijection(DropFixed(Arg)))

\* the mapping {1:2, 3:2} has been rejected
C3_Witness ==
    /\ Done
    /\ Arg = [k \in {1, 3} |-> 2]
    /\ result.tag = "ValueError:not injective"

\* a bijection with a fixed point has been accepted after more than one pop
C3_WitnessAccept ==
    /\ Done
    /\ Arg = [k \in {0, 1, 2, 3} |-> IF k = 0 THEN 0 ELSE IF k = 3 THEN 1 ELSE k + 1]
    /\ ~IsError(result)

\* ------------------------------------------------------------------------
\* Composition.
\* C1: (p * q).apply(x) = p.apply(q.apply(x)) for every x, also for the
\* elements p moves and q does not
C1_Composition ==
    Returned("mul") =>
        /\ Ok
        /\ \A x \in MulDom : At(result, x) = At(call.args[1], At(call.args[2], x))

\* C6: Identity * p == p, p * Identity == p and Identity ** e == Identity
C6_IdentityAbsorption ==
    /\ Returned("mul") /\ call.args[1] = IdentityOf(variant)
        => Ok /\ Eq(variant, result, call.args[2]) = "True"
    /\ Returned("mul") /\ call.args[2] = IdentityOf(variant)
        => Ok /\ Eq(variant, result, call.args[1]) = "True"
    /\ Returned("pow") /\ call.args[1] = IdentityOf(variant)
        => Ok /\ Eq(variant, result, IdentityOf(variant)) = "True"

\* ------------------------------------------------------------------------
\* Exponentiation and order.
RECURSIVE Iterate(_, _, _)
\* p applied n times to x
Iterate(p, n, x) == IF n = 0 THEN x ELSE Iterate(p, n - 1, At(p, x))

\* C4: (p ** e).apply(x) is p applied (e mod order(p)) times to x, for every
\* integer e and every branch of the cycle power
C4_PowerIsIteration ==
    Returned("pow") =>
        /\ Ok
        /\ \A x \in Dom :
            At(result, x) = Iterate(call.args[1], call.args[2] % call.args[1].order, x)

RECURSIVE Product1(_, _)
Product1(ns, i) == IF i > Len(ns) THEN 1 ELSE ns[i] * Product1(ns, i + 1)

\* the least positive integer every member of ns divides
LeastCommonMultiple(ns) ==
    Min({k \in 1..Product1(ns, 1) : \A i \in DOMAIN ns : k % ns[i] = 0})

\* C5: order() is the least common multiple of the orbit lengths (1 for
\* Identity), p ** order() is Identity, and p ** k is not for 0 < k < order()
C5_OrderLaw ==
    Returned("pow") =>
        LET p == call.args[1]
            e == call.args[2]
        IN  /\ p.order = LeastCommonMultiple(Lengths(p.orbits))
            /\ e = p.order => Ok /\ Eq(variant, result, IdentityOf(variant)) = "True"
            /\ (0 < e /\ e < p.order) =>
                  ~(Ok /\ Eq(variant, result, IdentityOf(variant)) = "True")

\* a permutation with orbits of lengths 2 and 3 was raised to its order 6
C5_Witness ==
    /\ Returned("pow")
    /\ Lengths(call.args[1].orbits) = <<2, 3>>
    /\ call.args[2] = 6
    /\ call.args[1].order = 6
    /\ result = IdentityOf(variant)

\* ------------------------------------------------------------------------
\* Explicit cycle construction.
RECURSIVE Repeated(_, _)
\* s is prefix given a whole number (>= 1) of times
Repeated(s, prefix) ==
    /\ Len(s) >= Len(prefix)
    /\ SubSeq(s, 1, Len(prefix)) = prefix
    /\ Len(s) > Len(prefix) => Repeated(SubSeq(s, Len(prefix) + 1, Len(s)), prefix)

Distinct(s) == \A i, j \in DOMAIN s : s[i] = s[j] => i = j

\* the elements before the first recurrence of the first element
PrefixOf(s) ==
    LET later == {i \in 2..Len(s) : s[i] = s[1]}
    IN  IF later = {} THEN s ELSE SubSeq(s, 1, Min(later) - 1)

\* C7: a sequence of at least 2 elements is accepted exactly when its prefix
\* has distinct elements and the sequence is the prefix repeated, the result
\* then equals the cycle of the prefix; a duplicate in the prefix raises the
\* inconsistent-cycle error, any other tail the non-cyclic error
C7_CycleValidation ==
    Returned("cycle") /\ Len(call.args[1]) >= 2 =>
        LET s == call.args[1]
            prefix == PrefixOf(s)
        IN  /\ Ok <=> (Distinct(prefix) /\ Repeated(s, prefix))
            /\ Ok => Eq(variant, result, CycleOf(variant, prefix)) = "True"
            /\ ~Distinct(prefix) => result.tag = "ValueError:inconsistent"
            /\ (Distinct(prefix) /\ ~Repeated(s, prefix))
                  => result.tag = "ValueError:not cyclic"

\* ------------------------------------------------------------------------
\* Product of terms.
RECURSIVE ApplyTerms(_, _, _)
\* t1(t2(...tk(x))): the terms from position i on, the rightmost first
ApplyTerms(ts, i, x) ==
    IF i > Len(ts) THEN x ELSE At(ts[i], ApplyTerms(ts, i + 1, x))

\* C8: the product of t1..tk is x -> t1(t2(...tk(x))); no term gives
\* Identity and one term t a value equal to t
C8_ProductOfTerms ==
    Returned("product") =>
        LET ts == call.args[1]
        IN  /\ Ok
            /\ \A x \in TermDom : At(result, x) = ApplyTerms(ts, 1, x)
            /\ Len(ts) = 0 => Eq(variant, result, IdentityOf(variant)) = "True"
            /\ Len(ts) = 1 => Eq(variant, result, ts[1]) = "True"

\* ------------------------------------------------------------------------
\* Canonical form.
\* C9: the orbit tuple of a decomposed mapping is the same whatever
\* unseen.pop() returned: every orbit starts with its least element and the
\* orbits are in the order of their least elements
C9_CanonicalOrbits ==
    Returned("new") /\ Ok =>
        /\ \A i \in DOMAIN result.orbits :
              result.orbits[i][1] = Min(Range(result.orbits[i]))
        /\ \A i, j \in DOMAIN result.orbits :
              i < j => Min(Range(result.orbits[i])) < Min(Range(result.orbits[j]))

\* the elements a value moves
Moved(v, D) == {x \in D : At(v, x) # x}

\* the mapping of v restricted to the elements it moves / extended to all of D
MovedMap(v, D) == [x \in Moved(v, D) |-> At(v, x)]

TotalMap(v, D) == [x \in D |-> At(v, x)]

RECURSIVE OrbitFrom(_, _, _)
\* the orbit of x as the sequence x, v(x), v(v(x)), ...
OrbitFrom(v, x, o) ==
    IF At(v, o[Len(o)]) = x THEN o ELSE OrbitFrom(v, x, Append(o, At(v, o[Len(o)])))

\* the other ways to build the function a value denotes: from the mapping
\* without and with fixed-point pairs, and, for a single cycle, from the cycle
\* sequence
SameFunctionBuilt(v, r, D) ==
    {New(v, MovedMap(r, D), pol) : pol \in Policies}
        \cup {New(v, TotalMap(r, D), pol) : pol \in Policies}
        \cup (IF Moved(r, D) # {} /\ Len(OrbitFrom(r, Min(Moved(r, D)), <<Min(Moved(r, D))>>))
                                        = Cardinality(Moved(r, D))
              THEN {CycleOf(v, OrbitFrom(r, Min(Moved(r, D)), <<Min(Moved(r, D))>>))}
              ELSE {})

\* C2: values equal as functions compare equal and hash equal whatever the
\* construction path and whether or not the input held fixed-point pairs, and
\* no value stores a fixed-point pair
C2_CanonicalEquality ==
    (Returned("new") \/ Returned("cycle")) /\ Ok =>
        /\ \A k \in DOMAIN result.map : result.map[k] # k
        /\ \A other \in SameFunctionBuilt(variant, result, RawDom) :
              /\ ~IsError(other)
              /\ Eq(variant, result, other) = "True"
              /\ HashOf(result) = HashOf(other)

\* C10: every value returned has orbits of at least 2 distinct elements,
\* pairwise disjoint, whose union is the set of the elements moved; fewer than
\* 2 distinct elements give Identity
C10_Representation ==
    pc = "done" /\ Ok =>
        /\ \A i \in DOMAIN result.orbits :
              Len(result.orbits[i]) >= 2 /\ Distinct(result.orbits[i])
        /\ \A i, j \in DOMAIN result.orbits :
              i # j => Range(result.orbits[i]) \cap Range(result.orbits[j]) = {}
        /\ UNION {Range(result.orbits[i]) : i \in DOMAIN result.orbits}
              = Moved(result, Dom \cup RawDom)
        /\ Returned("cycle") /\ Cardinality(Range(call.args[1])) < 2
              => result = IdentityOf(variant)


\* ------------------------------------------------------------------------
\* The structure of a cycle's power.
\* the greatest integer dividing both a and b (a, b positive)
GreatestCommonDivisor(a, b) ==
    Max({k \in 1..a : a % k = 0 /\ b % k = 0})

\* C11: for a cycle c of length n and an exponent e with e mod n # 0,
\* c ** e has exactly d = gcd(e mod n, n) orbits, each of length n / d, and
\* together they hold exactly the elements of c
C11_SplitPower ==
    Returned("pow") =>
        LET p == call.args[1]
            e == call.args[2]
        IN  (Len(p.orbits) = 1 /\ e % Len(p.orbits[1]) # 0) =>
                LET n == Len(p.orbits[1])
                    d == GreatestCommonDivisor(e % n, n)
                IN  /\ Ok
                    /\ Len(result.orbits) = d
                    /\ \A i \in DOMAIN result.orbits : Len(result.orbits[i]) = n \div d
                    /\ UNION {Range(result.orbits[i]) : i \in DOMAIN result.orbits}
                           = Range(p.orbits[1])


\* ------------------------------------------------------------------------
\* Right multiplication: other * self with a plain mapping on the left, which
\* Python resolves to self.__rmul__(other).
\* the default of get(key), a value that is no element of any mapping's keys
None == -1

\* other.get(key) of permutation.py, default None
Get(m, k) == IF k \in DOMAIN m THEN m[k] ELSE None

\* perm.py Permutation.__rmul__ (inherited by Cycle and Identity):
\* Permutation((k, other.get(v, v)) for k, v in self.items()); items()
\* iterates self, a TypeError for a Cycle and nothing for Identity
perm_rmul(self, other, pol) ==
    IF self.tag = "Cycle" THEN Raise("TypeError")
    ELSE perm_new([k \in DOMAIN self.map |-> Apply(other, self.map[k])], pol)

\* permutation.py Permutation.__rmul__: mapping = dict(other), then every key
\* of self is set to other.get(value)
permutation_rmul(self, other, pol) ==
    permutation_new(
        [k \in (DOMAIN other) \cup (DOMAIN self.map) |->
            IF k \in DOMAIN self.map THEN Get(other, self.map[k]) ELSE other[k]],
        pol)

RMul(v, self, other, pol) ==
    IF v = "perm" THEN perm_rmul(self, other, pol) ELSE permutation_rmul(self, other, pol)

\* the plain mappings given as the left operand
LeftMappings == UNION {[K -> MulDom] : K \in SUBSET MulDom}

\* m * p with m a plain mapping
CallRMul ==
    /\ pc = "idle"
    /\ \E pol \in Policies :
        \E m \in LeftMappings, p \in MulOperands(variant) :
            Returns([args |-> <<m, p>>, op |-> "rmul"], RMul(variant, p, m, pol))

SpecRMul == Init /\ [][CallRMul \/ Discard]_vars

\* C12: for a plain mapping m that permutes its keys and a permutation p,
\* m * p is x -> m'(p.apply(x)) with m'(y) = m[y] for a key y of m and y
\* otherwise: no key of either operand is dropped and nothing is mapped to a
\* placeholder
C12_RightMultiplication ==
    Returned("rmul") =>
        LET m == call.args[1]
            p == call.args[2]
        IN  IsBijection(m) =>
                /\ Ok
                /\ \A x \in MulDom : At(result, x) = Apply(m, At(p, x))


\* ------------------------------------------------------------------------
\* p ** e as a machine: one step per pass of the loop over the orbits, of the
\* head of `while unseen` and of the body of the index walk.  pow_todo holds
\* the orbits still to be raised, pow_cycle the orbit being walked,
\* pow_unseen, pow_first, pow_index and pow_new_cycle the walk's unseen,
\* first, index and new cycle; pow_value is the value of permutation.py's
\* __pow__, pow_cycles the `cycles` of perm.py's Cycle.__pow__, and mapping
\* the dict of perm.py's Permutation.__pow__.  A constructor called on a
\* mapping runs through the steps of the decomposition.
\* the orbits, indices and exponents of the powers taken step by step
NWalk == 4

WalkDom == 0..(NWalk - 1)

WalkOperands(v) == ValuesOn(v, WalkDom)

\* perm.py Cycle.__pow__: none of the special cases applies
Splits(exp, order) ==
    LET e == exp % order
    IN  e # 0 /\ e # 1 /\ e # order - 1 /\ gcd(<<e, order>>) # 1

\* perm.py: where a Cycle's power r goes.  Cycle.__pow__ called directly
\* returns it; inside Permutation.__pow__ it is the argument of
\* mapping.update, which propagates an exception, raises TypeError on a Cycle
\* and adds the (empty) Identity
After(r) ==
    IF call.args[1].tag = "Cycle" \/ IsError(r)
    THEN [mapping |-> mapping, pc |-> "done", result |-> r]
    ELSE IF r.tag = "Cycle"
    THEN [mapping |-> mapping, pc |-> "done", result |-> Raise("TypeError")]
    ELSE [mapping |-> Update(mapping, r), pc |-> "for", result |-> result]

\* p ** e is called: Identity.__pow__ returns at once; Cycle.__pow__ has the
\* one cycle to raise; Permutation.__pow__ starts its loop over the orbits
StartPow ==
    /\ pc = "idle"
    /\ \E p \in WalkOperands(variant), e \in Exponents :
        /\ call' = [args |-> <<p, e>>, op |-> "pow"]
        /\ pow_todo' = IF p.tag = "Identity" THEN <<>> ELSE p.orbits
        /\ result' = IF p.tag = "Identity" THEN p ELSE NoValue
        /\ pc' = IF p.tag = "Identity" THEN "done" ELSE "for"
    /\ pow_value' = IF variant = "permutation" THEN permutation_identity ELSE NoValue
    /\ UNCHANGED <<variant, mapping, unseen, orbits, orbit, first, key>>
    /\ UNCHANGED <<pow_cycle, pow_unseen, pow_first, pow_index, pow_new_cycle, pow_cycles>>

\* permutation.py `if exp % order == 0: pass`
ForSkip ==
    /\ pc = "for"
    /\ pow_todo # <<>>
    /\ variant = "permutation"
    /\ call.args[2] % Len(Head(pow_todo)) = 0
    /\ pow_todo' = Tail(pow_todo)
    /\ UNCHANGED <<variant, mapping, unseen, orbits, orbit, first, key, pc, result, call>>
    /\ UNCHANGED <<pow_cycle, pow_unseen, pow_first, pow_index, pow_new_cycle,
                   pow_cycles, pow_value>>

\* perm.py Cycle.__pow__, the special cases: exp % order in {0, 1, order - 1}
\* or coprime to order
ForSpecial ==
    /\ pc = "for"
    /\ pow_todo # <<>>
    /\ variant = "perm"
    /\ ~Splits(call.args[2], Len(Head(pow_todo)))
    /\ \E self \in {CycleObject(ZipNext(Head(pow_todo)), Head(pow_todo))} :
        \E a \in {After(perm_Cycle_pow(self, call.args[2], "min"))} :
            /\ mapping' = a.mapping
            /\ pc' = a.pc
            /\ result' = a.result
    /\ pow_todo' = Tail(pow_todo)
    /\ UNCHANGED <<variant, unseen, orbits, orbit, first, key, call>>
    /\ UNCHANGED <<pow_cycle, pow_unseen, pow_first, pow_index, pow_new_cycle,
                   pow_cycles, pow_value>>

\* `unseen = set(range(order))`, `cycle = list(orbit)` (perm.py: `cycles = []`)
ForEnter ==
    /\ pc = "for"
    /\ pow_todo # <<>>
    /\ IF variant = "perm"
       THEN Splits(call.args[2], Len(Head(pow_todo)))
       ELSE call.args[2] % Len(Head(pow_todo)) # 0
    /\ pow_cycle' = Head(pow_todo)
    /\ pow_todo' = Tail(pow_todo)
    /\ pow_unseen' = 0..(Len(Head(pow_todo)) - 1)
    /\ pow_cycles' = <<>>
    /\ pc' = "pow_outer"
    /\ UNCHANGED <<variant, mapping, unseen, orbits, orbit, first, key, result, call>>
    /\ UNCHANGED <<pow_first, pow_index, pow_new_cycle, pow_value>>

\* `while unseen: index = first = unseen.pop(); new_cycle = []`
PowPopFirst ==
    /\ pc = "pow_outer"
    /\ pow_unseen # {}
    /\ \E k \in pow_unseen :
        /\ pow_first' = k
        /\ pow_index' = k
        /\ pow_unseen' = pow_unseen \ {k}
    /\ pow_new_cycle' = <<>>
    /\ pc' = "pow_inner"
    /\ UNCHANGED <<variant, mapping, unseen, orbits, orbit, first, key, result, call>>
    /\ UNCHANGED <<pow_todo, pow_cycle, pow_cycles, pow_value>>

\* the index after `index = (index + exp) % order`
NextIndex == (pow_index + call.args[2]) % Len(pow_cycle)

\* the walk is back at first: break.  A new cycle longer than 1 is appended
\* to cycles (perm.py) or multiplied into value (permutation.py): __mul__
\* builds its dict and calls the constructor on it
PowClose ==
    /\ pc = "pow_inner"
    /\ PowStep(NextIndex, pow_first, pow_unseen) = "break"
    /\ pow_index' = NextIndex
    /\ \E nc \in {Append(pow_new_cycle, pow_cycle[pow_index + 1])} :
        /\ pow_new_cycle' = nc
        /\ pow_cycles' = IF variant = "perm" /\ Len(nc) > 1
                         THEN Append(pow_cycles, nc)
                         ELSE pow_cycles
        /\ IF variant = "permutation" /\ Len(nc) > 1
           THEN \E m \in {Stored(variant,
                              permutation_mul_dict(pow_value, permutation_new_cycle(nc)))} :
                    /\ mapping' = m
                    /\ unseen' = DOMAIN m
                    /\ orbits' = <<>>
                    /\ pc' = "outer"
           ELSE /\ pc' = "pow_outer"
                /\ UNCHANGED <<mapping, unseen, orbits>>
    /\ UNCHANGED <<variant, orbit, first, key, result, call>>
    /\ UNCHANGED <<pow_todo, pow_cycle, pow_unseen, pow_first, pow_value>>

\* the walk goes on: unseen.remove(index), whose KeyError nothing catches
PowRemove ==
    /\ pc = "pow_inner"
    /\ PowStep(NextIndex, pow_first, pow_unseen) # "break"
    /\ pow_new_cycle' = Append(pow_new_cycle, pow_cycle[pow_index + 1])
    /\ pow_index' = NextIndex
    /\ IF PowStep(NextIndex, pow_first, pow_unseen) = "remove"
       THEN /\ pow_unseen' = pow_unseen \ {NextIndex}
            /\ UNCHANGED <<pc, result>>
       ELSE /\ result' = Raise("KeyError")
            /\ pc' = "done"
            /\ UNCHANGED pow_unseen
    /\ UNCHANGED <<variant, mapping, unseen, orbits, orbit, first, key, call>>
    /\ UNCHANGED <<pow_todo, pow_cycle, pow_first, pow_cycles, pow_value>>

\* unseen is empty: permutation.py takes the next orbit, perm.py returns
\* Permutation.from_product(cycles)
PowEnd ==
    /\ pc = "pow_outer"
    /\ pow_unseen = {}
    /\ \E a \in {IF variant = "perm"
                 THEN After(perm_from_product_lists(pow_cycles))
                 ELSE [mapping |-> mapping, pc |-> "for", result |-> result]} :
        /\ mapping' = a.mapping
        /\ pc' = a.pc
        /\ result' = a.result
    /\ UNCHANGED <<variant, unseen, orbits, orbit, first, key, call, frame>>

\* the loop over the orbits is over: permutation.py `return value`, perm.py
\* `return Permutation(mapping)`, the constructor called on the dict
PowReturn ==
    /\ pc = "for"
    /\ pow_todo = <<>>
    /\ IF variant = "perm"
       THEN /\ unseen' = DOMAIN mapping
            /\ orbits' = <<>>
            /\ pc' = "outer"
            /\ UNCHANGED result
       ELSE /\ result' = pow_value
            /\ pc' = "done"
            /\ UNCHANGED <<unseen, orbits>>
    /\ UNCHANGED <<variant, mapping, orbit, first, key, call, frame>>

\* the steps the interpreter takes once a call is running
Step ==
    \/ PopFirst \/ WalkClose \/ WalkAdvance \/ WalkRaise \/ Return
    \/ ForSkip \/ ForSpecial \/ ForEnter
    \/ PowPopFirst \/ PowClose \/ PowRemove \/ PowEnd \/ PowReturn

NextWalk == Start \/ StartPow \/ Step \/ Discard

\* a running call is never suspended: its next step is always taken
SpecWalk == Init /\ [][NextWalk]_vars /\ WF_vars(Step)

\* ------------------------------------------------------------------------
\* Termination.
Running == pc \notin {"idle", "done"}

\* one element fewer in a set of the unvisited
RemovesOne(before, after) ==
    after \subseteq before /\ Cardinality(after) = Cardinality(before) - 1

\* C13: the decomposition of every mapping and the index walk of every power
\* finish: no call runs for ever; each step of the decomposition's inner loop
\* closes the orbit, raises the not-injective error or removes one element
\* from unseen; each step of the index walk closes the new cycle or removes
\* one index, and its unseen.remove never raises KeyError; a decomposition
\* ends with a value or the not-injective error
C13_Termination ==
    /\ []<>(~Running)
    /\ [][pc = "inner" =>
            \/ pc' = "outer" /\ unseen' = unseen
            \/ pc' = "done" /\ result' = Raise("ValueError:not injective")
            \/ pc' = "inner" /\ RemovesOne(unseen, unseen')]_vars
    /\ [][pc = "pow_inner" =>
            \/ pc' \in {"pow_outer", "outer"} /\ pow_unseen' = pow_unseen
            \/ pc' = "pow_inner" /\ RemovesOne(pow_unseen, pow_unseen')]_vars
    /\ [](result # Raise("KeyError"))
    /\ [](Done => Ok \/ result = Raise("ValueError:not injective"))

\* the index walk of a 4-cycle raised to the power 2 has run, through two new
\* cycles, and the call has returned
C13_Witness ==
    /\ Returned("pow")
    /\ Len(call.args[1].orbits) = 1
    /\ pow_cycle = call.args[1].orbits[1]
    /\ Len(pow_cycle) = 4
    /\ call.args[2] = 2
    /\ pow_unseen = {}
    /\ Len(pow_new_cycle) = 2

====
